---- MODULE Spec2Model ----
(***************************************************************************)
(* A model of django_ogone/security.py: the OgoneSignature class that      *)
(* canonicalizes a parameter mapping (filter, uppercase, sort), merges it  *)
(* with the shared secret into a pre-sign string and hashes that string.   *)
(*                                                                         *)
(* Python values are modelled with Python 2 semantics (the module's        *)
(* doctests and __unicode__ are Python 2): a string is named by a TLA+     *)
(* string whose characters Chars gives as ASCII codes, numbers are ints or *)
(* integral floats, and None is its own value.  A dict is the sequence of  *)
(* its (key, value) items in iteration order, with pairwise distinct keys. *)
(* Objects live on a heap so that sharing and copying can be told apart.   *)
(***************************************************************************)
EXTENDS Integers, Sequences, FiniteSets, TLC

\* The largest number of items the caller puts in a mapping it builds.
MaxLen == 2

(***************************************************************************)
(* Strings: the characters (ASCII codes) of every string the model uses.   *)
(***************************************************************************)
Chars ==
    "amount" :> <<97, 109, 111, 117, 110, 116>>
 @@ "AMOUNT" :> <<65, 77, 79, 85, 78, 84>>
 @@ "status" :> <<115, 116, 97, 116, 117, 115>>
 @@ "operation" :> <<111, 112, 101, 114, 97, 116, 105, 111, 110>>
 @@ "d" :> <<100>>
 @@ "a" :> <<97>>
 @@ "SHASIGN" :> <<83, 72, 65, 83, 73, 71, 78>>
 @@ "acceptance" :> <<97, 99, 99, 101, 112, 116, 97, 110, 99, 101>>
 @@ "brand" :> <<98, 114, 97, 110, 100>>
 @@ "cardno" :> <<99, 97, 114, 100, 110, 111>>
 @@ "currency" :> <<99, 117, 114, 114, 101, 110, 99, 121>>
 @@ "NCERROR" :> <<78, 67, 69, 82, 82, 79, 82>>
 @@ "orderId" :> <<111, 114, 100, 101, 114, 73, 100>>
 @@ "payid" :> <<112, 97, 121, 105, 100>>
 @@ "pm" :> <<112, 109>>
 @@ "orderID" :> <<111, 114, 100, 101, 114, 73, 68>>
 @@ "PSPID" :> <<80, 83, 80, 73, 68>>
 @@ "STATUS" :> <<83, 84, 65, 84, 85, 83>>
 @@ "OPERATION" :> <<79, 80, 69, 82, 65, 84, 73, 79, 78>>
 @@ "D" :> <<68>>
 @@ "A" :> <<65>>
 @@ "ACCEPTANCE" :> <<65, 67, 67, 69, 80, 84, 65, 78, 67, 69>>
 @@ "BRAND" :> <<66, 82, 65, 78, 68>>
 @@ "CARDNO" :> <<67, 65, 82, 68, 78, 79>>
 @@ "CURRENCY" :> <<67, 85, 82, 82, 69, 78, 67, 89>>
 @@ "ORDERID" :> <<79, 82, 68, 69, 82, 73, 68>>
 @@ "PAYID" :> <<80, 65, 89, 73, 68>>
 @@ "PM" :> <<80, 77>>
 @@ "" :> <<>>
 @@ "b" :> <<98>>
 @@ "VISA" :> <<86, 73, 83, 65>>
 @@ "xxxxxxxxxxxx1111" :>
        <<120, 120, 120, 120, 120, 120, 120, 120, 120, 120, 120, 120, 49,
        49, 49, 49>>
 @@ "EUR" :> <<69, 85, 82>>
 @@ "CreditCard" :> <<67, 114, 101, 100, 105, 116, 67, 97, 114, 100>>
 @@ "RES" :> <<82, 69, 83>>
 @@ "MyPSPID" :> <<77, 121, 80, 83, 80, 73, 68>>
 @@ "c" :> <<99>>
 @@ "Mysecretsig1875!?" :>
        <<77, 121, 115, 101, 99, 114, 101, 116, 115, 105, 103, 49, 56, 55,
        53, 33, 63>>
 @@ "None" :> <<78, 111, 110, 101>>
 @@ "=" :> <<61>>
 @@ ".0" :> <<46, 48>>
 @@ "-" :> <<45>>
 @@ "A=bcD=ac" :> <<65, 61, 98, 99, 68, 61, 97, 99>>
 @@ "ACCEPTANCE=1234Mysecretsig1875!?AMOUNT=15Mysecretsig1875!?BRAND=VISAMysecretsig1875!?CARDNO=xxxxxxxxxxxx1111Mysecretsig1875!?CURRENCY=EURMysecretsig1875!?NCERROR=0Mysecretsig1875!?ORDERID=12Mysecretsig1875!?PAYID=32100123Mysecretsig1875!?PM=CreditCardMysecretsig1875!?STATUS=9Mysecretsig1875!?" :>
        <<65, 67, 67, 69, 80, 84, 65, 78, 67, 69, 61, 49, 50, 51, 52, 77,
        121, 115, 101, 99, 114, 101, 116, 115, 105, 103, 49, 56, 55, 53, 33,
        63, 65, 77, 79, 85, 78, 84, 61, 49, 53, 77, 121, 115, 101, 99, 114,
        101, 116, 115, 105, 103, 49, 56, 55, 53, 33, 63, 66, 82, 65, 78, 68,
        61, 86, 73, 83, 65, 77, 121, 115, 101, 99, 114, 101, 116, 115, 105,
        103, 49, 56, 55, 53, 33, 63, 67, 65, 82, 68, 78, 79, 61, 120, 120,
        120, 120, 120, 120, 120, 120, 120, 120, 120, 120, 49, 49, 49, 49,
        77, 121, 115, 101, 99, 114, 101, 116, 115, 105, 103, 49, 56, 55, 53,
        33, 63, 67, 85, 82, 82, 69, 78, 67, 89, 61, 69, 85, 82, 77, 121,
        115, 101, 99, 114, 101, 116, 115, 105, 103, 49, 56, 55, 53, 33, 63,
        78, 67, 69, 82, 82, 79, 82, 61, 48, 77, 121, 115, 101, 99, 114, 101,
        116, 115, 105, 103, 49, 56, 55, 53, 33, 63, 79, 82, 68, 69, 82, 73,
        68, 61, 49, 50, 77, 121, 115, 101, 99, 114, 101, 116, 115, 105, 103,
        49, 56, 55, 53, 33, 63, 80, 65, 89, 73, 68, 61, 51, 50, 49, 48, 48,
        49, 50, 51, 77, 121, 115, 101, 99, 114, 101, 116, 115, 105, 103, 49,
        56, 55, 53, 33, 63, 80, 77, 61, 67, 114, 101, 100, 105, 116, 67, 97,
        114, 100, 77, 121, 115, 101, 99, 114, 101, 116, 115, 105, 103, 49,
        56, 55, 53, 33, 63, 83, 84, 65, 84, 85, 83, 61, 57, 77, 121, 115,
        101, 99, 114, 101, 116, 115, 105, 103, 49, 56, 55, 53, 33, 63>>
 @@ "AMOUNT=1500Mysecretsig1875!?CURRENCY=EURMysecretsig1875!?OPERATION=RESMysecretsig1875!?ORDERID=1234Mysecretsig1875!?PSPID=MyPSPIDMysecretsig1875!?" :>
        <<65, 77, 79, 85, 78, 84, 61, 49, 53, 48, 48, 77, 121, 115, 101, 99,
        114, 101, 116, 115, 105, 103, 49, 56, 55, 53, 33, 63, 67, 85, 82,
        82, 69, 78, 67, 89, 61, 69, 85, 82, 77, 121, 115, 101, 99, 114, 101,
        116, 115, 105, 103, 49, 56, 55, 53, 33, 63, 79, 80, 69, 82, 65, 84,
        73, 79, 78, 61, 82, 69, 83, 77, 121, 115, 101, 99, 114, 101, 116,
        115, 105, 103, 49, 56, 55, 53, 33, 63, 79, 82, 68, 69, 82, 73, 68,
        61, 49, 50, 51, 52, 77, 121, 115, 101, 99, 114, 101, 116, 115, 105,
        103, 49, 56, 55, 53, 33, 63, 80, 83, 80, 73, 68, 61, 77, 121, 80,
        83, 80, 73, 68, 77, 121, 115, 101, 99, 114, 101, 116, 115, 105, 103,
        49, 56, 55, 53, 33, 63>>

\* The string that has the given characters.
Name(codes) == CHOOSE s \in DOMAIN Chars : Chars[s] = codes

\* str.upper() on one character: a-z are shifted to A-Z, the rest is kept.
ToUpperCode(c) == IF c >= 97 /\ c <= 122 THEN c - 32 ELSE c

\* k.upper()
upper(k) == Name([i \in 1..Len(Chars[k]) |-> ToUpperCode(Chars[k][i])])

RECURSIVE SeqLT(_, _)
\* Lexicographic order of two character sequences (Python's str <).
SeqLT(a, b) ==
    IF b = <<>> THEN FALSE
    ELSE IF a = <<>> THEN TRUE
    ELSE IF Head(a) # Head(b) THEN Head(a) < Head(b)
    ELSE SeqLT(Tail(a), Tail(b))

StrLT(a, b) == SeqLT(Chars[a], Chars[b])

(***************************************************************************)
(* Python values.                                                          *)
(***************************************************************************)
PyStr(s) == [t |-> "str", s |-> s, n |-> 0]
PyInt(n) == [t |-> "int", s |-> "", n |-> n]
\* A float with an integral value n (0.0, 15.0, ...).
PyFloat(n) == [t |-> "float", s |-> "", n |-> n]
PyNone == [t |-> "NoneType", s |-> "", n |-> 0]

IsNumber(v) == v.t \in {"int", "float"}

\* v == w : numbers compare by value across int and float.
PyEq(v, w) ==
    IF IsNumber(v) /\ IsNumber(w) THEN v.n = w.n
    ELSE v.t = w.t /\ v.s = w.s

\* v < w in Python 2: None is below everything, numbers are below strings.
PyLT(v, w) ==
    IF IsNumber(v) /\ IsNumber(w) THEN v.n < w.n
    ELSE IF v.t = "str" /\ w.t = "str" THEN StrLT(v.s, w.s)
    ELSE IF v.t = "NoneType" THEN w.t # "NoneType"
    ELSE IsNumber(v) /\ w.t = "str"

RECURSIVE Digits(_)
\* The decimal digits of a natural number.
Digits(n) == IF n < 10 THEN <<48 + n>> ELSE Digits(n \div 10) \o <<48 + (n % 10)>>

\* '%s' % v, also str(v): the characters v is rendered as.
Format(v) ==
    CASE v.t = "str" -> Chars[v.s]
      [] v.t = "int" ->
           IF v.n < 0 THEN Chars["-"] \o Digits(-v.n) ELSE Digits(v.n)
      [] v.t = "float" ->
           (IF v.n < 0 THEN Chars["-"] \o Digits(-v.n) ELSE Digits(v.n)) \o Chars[".0"]
      [] OTHER -> Chars["None"]

(***************************************************************************)
(* The allow-lists of _filter_data, verbatim.                              *)
(***************************************************************************)
SHA_IN_FILTER_WORDS == {
    "ACCEPTANCE", "ACCEPTURL", "ADDMATCH", "ADDRMATCH", "AIAGIATA",
    "AIAIRNAME", "AIAIRTAX", "AIBOOKIND*XX*", "AICARRIER*XX*", "AICHDET",
    "AICLASS*XX*", "AICONJTI", "AIDEPTCODE", "AIDESTCITY*XX*",
    "AIDESTCITYL*XX*", "AIEXTRAPASNAME*XX*", "AIEYCD", "AIFLDATE*XX*",
    "AIFLNUM*XX*", "AIGLNUM", "AIINVOICE", "AIIRST", "AIORCITY*XX*",
    "AIORCITYL*XX*", "AIPASNAME", "AIPROJNUM", "AISTOPOV*XX*", "AITIDATE",
    "AITINUM", "AITINUML*XX*", "AITYPCH", "AIVATAMNT", "AIVATAPPL", "ALIAS",
    "ALIASOPERATION", "ALIASUSAGE", "ALLOWCORRECTION", "AMOUNT",
    "AMOUNT*XX*", "AMOUNTHTVA", "AMOUNTTVA", "BACKURL", "BATCHID",
    "BGCOLOR", "BLVERNUM", "BRAND", "BRANDVISUAL", "BUTTONBGCOLOR",
    "BUTTONTXTCOLOR", "CANCELURL", "CARDNO", "CATALOGURL", "CAVV_3D",
    "CAVVALGORITHM_3D", "CERTID", "CHECK_AAV", "CIVILITY", "CN", "COM",
    "COMPLUS", "COSTCENTER", "COSTCODE", "CREDITCODE", "CUID", "CURRENCY",
    "CVC", "CVCFLAG", "DATA", "DATATYPE", "DATEIN", "DATEOUT", "DECLINEURL",
    "DEVICE", "DISCOUNTRATE", "DISPLAYMODE", "ECI", "ECI_3D",
    "ECOM_BILLTO_POSTAL_CITY", "ECOM_BILLTO_POSTAL_COUNTRYCODE",
    "ECOM_BILLTO_POSTAL_NAME_FIRST", "ECOM_BILLTO_POSTAL_NAME_LAST",
    "ECOM_BILLTO_POSTAL_POSTALCODE", "ECOM_BILLTO_POSTAL_STREET_LINE1",
    "ECOM_BILLTO_POSTAL_STREET_LINE2", "ECOM_BILLTO_POSTAL_STREET_NUMBER",
    "ECOM_CONSUMERID", "ECOM_CONSUMER_GENDER", "ECOM_CONSUMEROGID",
    "ECOM_CONSUMERORDERID", "ECOM_CONSUMERUSERALIAS",
    "ECOM_CONSUMERUSERPWD", "ECOM_CONSUMERUSERID",
    "ECOM_PAYMENT_CARD_EXPDATE_MONTH", "ECOM_PAYMENT_CARD_EXPDATE_YEAR",
    "ECOM_PAYMENT_CARD_NAME", "ECOM_PAYMENT_CARD_VERIFICATION",
    "ECOM_SHIPTO_COMPANY", "ECOM_SHIPTO_DOB", "ECOM_SHIPTO_ONLINE_EMAIL",
    "ECOM_SHIPTO_POSTAL_CITY", "ECOM_SHIPTO_POSTAL_COUNTRYCODE",
    "ECOM_SHIPTO_POSTAL_NAME_FIRST", "ECOM_SHIPTO_POSTAL_NAME_LAST",
    "ECOM_SHIPTO_POSTAL_NAME_PREFIX", "ECOM_SHIPTO_POSTAL_POSTALCODE",
    "ECOM_SHIPTO_POSTAL_STREET_LINE1", "ECOM_SHIPTO_POSTAL_STREET_LINE2",
    "ECOM_SHIPTO_POSTAL_STREET_NUMBER", "ECOM_SHIPTO_TELECOM_FAX_NUMBER",
    "ECOM_SHIPTO_TELECOM_PHONE_NUMBER", "ECOM_SHIPTO_TVA", "ED", "EMAIL",
    "EXCEPTIONURL", "EXCLPMLIST", "EXECUTIONDATE*XX*", "FACEXCL*XX*",
    "FACTOTAL*XX*", "FIRSTCALL", "FLAG3D", "FONTTYPE", "FORCECODE1",
    "FORCECODE2", "FORCECODEHASH", "FORCEPROCESS", "FORCETP", "GENERIC_BL",
    "GIROPAY_ACCOUNT_NUMBER", "GIROPAY_BLZ", "GIROPAY_OWNER_NAME",
    "GLOBORDERID", "GUID", "HDFONTTYPE", "HDTBLBGCOLOR", "HDTBLTXTCOLOR",
    "HEIGHTFRAME", "HOMEURL", "HTTP_ACCEPT", "HTTP_USER_AGENT",
    "INCLUDE_BIN", "INCLUDE_COUNTRIES", "INVDATE", "INVDISCOUNT",
    "INVLEVEL", "INVORDERID", "ISSUERID", "IST_MOBILE", "ITEM_COUNT",
    "ITEMATTRIBUTES*XX*", "ITEMCATEGORY*XX*", "ITEMCOMMENTS*XX*",
    "ITEMDESC*XX*", "ITEMDISCOUNT*XX*", "ITEMID*XX*", "ITEMNAME*XX*",
    "ITEMPRICE*XX*", "ITEMQUANT*XX*", "ITEMQUANTORIG*XX*",
    "ITEMUNITOFMEASURE*XX*", "ITEMVAT*XX*", "ITEMVATCODE*XX*",
    "ITEMWEIGHT*XX*", "LANGUAGE", "LEVEL1AUTHCPC", "LIDEXCL*XX*",
    "LIMITCLIENTSCRIPTUSAGE", "LINE_REF", "LINE_REF1", "LINE_REF2",
    "LINE_REF3", "LINE_REF4", "LINE_REF5", "LINE_REF6", "LIST_BIN",
    "LIST_COUNTRIES", "LOGO", "MAXITEMQUANT*XX*", "MERCHANTID", "MODE",
    "MTIME", "MVER", "NETAMOUNT", "OPERATION", "ORDERID", "ORDERSHIPCOST",
    "ORDERSHIPTAX", "ORDERSHIPTAXCODE", "ORIG", "OR_INVORDERID",
    "OR_ORDERID", "OWNERADDRESS", "OWNERADDRESS2", "OWNERCTY", "OWNERTELNO",
    "OWNERTOWN", "OWNERZIP", "PAIDAMOUNT", "PARAMPLUS", "PARAMVAR", "PAYID",
    "PAYMETHOD", "PM", "PMLIST", "PMLISTPMLISTTYPE", "PMLISTTYPE",
    "PMLISTTYPEPMLIST", "PMTYPE", "POPUP", "POST", "PSPID", "PSWD", "REF",
    "REFER", "REFID", "REFKIND", "REF_CUSTOMERID", "REF_CUSTOMERREF",
    "REGISTRED", "REMOTE_ADDR", "REQGENFIELDS", "RTIMEOUT",
    "RTIMEOUTREQUESTEDTIMEOUT", "SCORINGCLIENT", "SETT_BATCH", "SID",
    "STATUS_3D", "SUBSCRIPTION_ID", "SUB_AM", "SUB_AMOUNT", "SUB_COM",
    "SUB_COMMENT", "SUB_CUR", "SUB_ENDDATE", "SUB_ORDERID",
    "SUB_PERIOD_MOMENT", "SUB_PERIOD_MOMENT_M", "SUB_PERIOD_MOMENT_WW",
    "SUB_PERIOD_NUMBER", "SUB_PERIOD_NUMBER_D", "SUB_PERIOD_NUMBER_M",
    "SUB_PERIOD_NUMBER_WW", "SUB_PERIOD_UNIT", "SUB_STARTDATE",
    "SUB_STATUS", "TAAL", "TAXINCLUDED*XX*", "TBLBGCOLOR", "TBLTXTCOLOR",
    "TID", "TITLE", "TOTALAMOUNT", "TP", "TRACK2", "TXTBADDR2", "TXTCOLOR",
    "TXTOKEN", "TXTOKENTXTOKENPAYPAL", "TYPE_COUNTRY",
    "UCAF_AUTHENTICATION_DATA", "UCAF_PAYMENT_CARD_CVC2",
    "UCAF_PAYMENT_CARD_EXPDATE_MONTH", "UCAF_PAYMENT_CARD_EXPDATE_YEAR",
    "UCAF_PAYMENT_CARD_NUMBER", "USERID", "USERTYPE", "VERSION",
    "WBTU_MSISDN", "WBTU_ORDERID", "WEIGHTUNIT", "WIN3DS", "WITHROOT"
    }

SHA_OUT_FILTER_WORDS == {
    "AAVADDRESS", "AAVCHECK", "AAVZIP", "ACCEPTANCE", "ALIAS", "AMOUNT",
    "BIN", "BRAND", "CARDNO", "CCCTY", "CN", "COMPLUS", "CREATION_STATUS",
    "CURRENCY", "CVCCHECK", "DCC_COMMPERCENTAGE", "DCC_CONVAMOUNT",
    "DCC_CONVCCY", "DCC_EXCHRATE", "DCC_EXCHRATESOURCE", "DCC_EXCHRATETS",
    "DCC_INDICATOR", "DCC_MARGINPERCENTAGE", "DCC_VALIDHOURS",
    "DIGESTCARDNO", "ECI", "ED", "ENCCARDNO", "IP", "IPCTY",
    "NBREMAILUSAGE", "NBRIPUSAGE", "NBRIPUSAGE_ALLTX", "NBRUSAGE",
    "NCERROR", "ORDERID", "PAYID", "PM", "SCO_CATEGORY", "SCORING",
    "STATUS", "SUBBRAND", "SUBSCRIPTION_ID", "TRXDATE", "VC"
    }

(***************************************************************************)
(* The state.                                                              *)
(***************************************************************************)
VARIABLES
    heap,             \* the dict objects: ref -> [live, items]
    caller,           \* the ref of the mapping the caller holds and passes as data
    inst,             \* the OgoneSignature instance (self), if one was constructed
    given,            \* the items the caller's mapping held when it was passed to __init__
    call,             \* the last operation and, for a construction, its arguments
    raised,           \* the exception the last operation raised, or "none"
    sorted_data,      \* the sorted data the last signature() computed (and logged)
    pre_sign_string,  \* the string to sign the last signature() computed (and logged)
    signed            \* what the last signature() returned

vars == <<heap, caller, inst, given, call, raised, sorted_data, pre_sign_string, signed>>

Refs == 1..2

NoObj == [live |-> FALSE, items |-> <<>>]

NoInst ==
    [made |-> FALSE, data |-> 0, hash_method |-> "", secret |-> PyNone,
     encoding |-> "", out |-> FALSE]

NoDigest == [method |-> "", bytes |-> <<>>]

NoArgs(op) == [op |-> op, hash_method |-> "", secret |-> PyNone]

(***************************************************************************)
(* dict operations.                                                        *)
(***************************************************************************)
KeysOf(d) == {d[i][1] : i \in 1..Len(d)}

\* d[k] = v : replaces the value of an existing key in place, else appends.
setitem(d, k, v) ==
    IF k \in KeysOf(d)
    THEN [i \in 1..Len(d) |-> IF d[i][1] = k THEN <<k, v>> ELSE d[i]]
    ELSE Append(d, <<k, v>>)

\* del d[k]
delitem(d, k) == SelectSeq(d, LAMBDA e : e[1] # k)

\* data.copy() as a bug would have it: the same object, no copy.
copy_alias(h, r) == [ref |-> r, heap |-> h]

\* data.copy(): a new dict object holding the same items.
copy(h, r) ==
    LET n == CHOOSE x \in Refs : ~h[x].live
    IN  [ref |-> n, heap |-> [h EXCEPT ![n] = [live |-> TRUE, items |-> h[r].items]]]

(***************************************************************************)
(* OgoneSignature.                                                         *)
(***************************************************************************)
\* __init__ without the check of hash_method.
init_any_hash(h, data, hash_method, secret, encoding, out) ==
    IF Format(secret) = <<>>
    THEN [raised |-> "AssertionError", self |-> NoInst, heap |-> h]
    ELSE LET c == copy(h, data)
         IN  [raised |-> "none",
              self |-> [made |-> TRUE, data |-> c.ref, hash_method |-> hash_method,
                        secret |-> secret, encoding |-> encoding, out |-> out],
              heap |-> c.heap]

\* __init__: the two assertions, then the copy of data and the fields.
__init__(h, data, hash_method, secret, encoding, out) ==
    IF hash_method \notin {"sha1", "sha256", "sha512"}
    THEN [raised |-> "AssertionError", self |-> NoInst, heap |-> h]
    ELSE IF Format(secret) = <<>>
    THEN [raised |-> "AssertionError", self |-> NoInst, heap |-> h]
    ELSE LET c == copy(h, data)
         IN  [raised |-> "none",
              self |-> [made |-> TRUE, data |-> c.ref, hash_method |-> hash_method,
                        secret |-> secret, encoding |-> encoding, out |-> out],
              heap |-> c.heap]

\* _filter_data with "if not v" for the emptiness test.
filter_data_falsy(self, k, v) ==
    /\ ~(v.t = "NoneType" \/ PyEq(v, PyStr("")) \/ PyEq(v, PyInt(0)))
    /\ ~(~self.out /\ upper(k) \notin SHA_IN_FILTER_WORDS)
    /\ ~(self.out /\ upper(k) \notin SHA_OUT_FILTER_WORDS)
    /\ k # "SHASIGN"

\* _filter_data that ignores self.out and always uses the SHA-IN list.
filter_data_in_only(self, k, v) ==
    /\ ~(PyEq(v, PyStr("")) \/ v.t = "NoneType")
    /\ upper(k) \in SHA_IN_FILTER_WORDS
    /\ k # "SHASIGN"

\* _filter_data(k, v): valid unless one of the four tests clears it.
_filter_data(self, k, v) ==
    /\ ~(PyEq(v, PyStr("")) \/ v.t = "NoneType")
    /\ ~(~self.out /\ upper(k) \notin SHA_IN_FILTER_WORDS)
    /\ ~(self.out /\ upper(k) \notin SHA_OUT_FILTER_WORDS)
    /\ k # "SHASIGN"

\* (k1, v1) < (k2, v2) for tuples: the first component that differs decides.
TupleLT(x, y) ==
    IF x[1] # y[1] THEN StrLT(x[1], y[1])
    ELSE IF ~PyEq(x[2], y[2]) THEN PyLT(x[2], y[2])
    ELSE FALSE

\* key=lambda x: x
SortKey(x) == x

RECURSIVE sort(_)
\* list.sort(key=SortKey, reverse=False): a stable sort; every item goes behind
\* the items already placed that are not greater than it.
sort(l) ==
    IF l = <<>> THEN <<>>
    ELSE LET s == sort(SubSeq(l, 1, Len(l) - 1))
             x == l[Len(l)]
             i == Cardinality({j \in 1..Len(s) : ~TupleLT(SortKey(x), SortKey(s[j]))})
         IN  SubSeq(s, 1, i) \o <<x>> \o SubSeq(s, i + 1, Len(s))

\* The list comprehension of _sort_data, in the iteration order of data.
Comprehension(self, data) ==
    LET kept == SelectSeq(data, LAMBDA e : _filter_data(self, upper(e[1]), e[2]))
    IN  [i \in 1..Len(kept) |-> <<upper(kept[i][1]), kept[i][2]>>]

\* _sort_data(data)
_sort_data(self, data) == sort(Comprehension(self, data))

RECURSIVE join(_, _)
\* sep.join(pairs)
join(sep, pairs) ==
    IF pairs = <<>> THEN <<>>
    ELSE IF Len(pairs) = 1 THEN pairs[1]
    ELSE pairs[1] \o sep \o join(sep, Tail(pairs))

\* '%s=%s' % (k, v)
FormatPair(e) == Chars[e[1]] \o Chars["="] \o Format(e[2])

RECURSIVE Flatten(_)
\* The concatenation of a sequence of sequences (by halves).
Flatten(ss) ==
    IF ss = <<>> THEN <<>>
    ELSE IF Len(ss) = 1 THEN ss[1]
    ELSE LET h == Len(ss) \div 2
         IN  Flatten(SubSeq(ss, 1, h)) \o Flatten(SubSeq(ss, h + 1, Len(ss)))

\* str.encode(encoding) for utf8: one byte below 128, two bytes below 2048.
encode(s, encoding) ==
    Flatten([i \in 1..Len(s) |->
        IF s[i] < 128 THEN <<s[i]>>
        ELSE <<192 + (s[i] \div 64), 128 + (s[i] % 64)>>])

\* _merge_data without the secret at the end.
merge_data_no_suffix(self, data) ==
    encode(join(Format(self.secret), [i \in 1..Len(data) |-> FormatPair(data[i])]),
           self.encoding)

\* _merge_data(data)
_merge_data(self, data) ==
    LET pairs == [i \in 1..Len(data) |-> FormatPair(data[i])]
        secret == Format(self.secret)
    IN  encode(join(secret, pairs) \o secret, self.encoding)

\* _sign_string: the digest is determined by the algorithm and the bytes hashed;
\* it is kept as that pair (distinct inputs give distinct digests).
_sign_string(self, s) == [method |-> self.hash_method, bytes |-> s]

(***************************************************************************)
(* The inputs.                                                             *)
(***************************************************************************)
\* dict(d='a', a='b')
Doctest1Data == << <<"d", PyStr("a")>>, <<"a", PyStr("b")>> >>

\* The shaOUT example of the docstring.
Doctest2Data ==
    << <<"acceptance", PyInt(1234)>>, <<"amount", PyInt(15)>>,
       <<"brand", PyStr("VISA")>>, <<"cardno", PyStr("xxxxxxxxxxxx1111")>>,
       <<"currency", PyStr("EUR")>>, <<"NCERROR", PyInt(0)>>,
       <<"orderId", PyInt(12)>>, <<"payid", PyInt(32100123)>>,
       <<"pm", PyStr("CreditCard")>>, <<"status", PyInt(9)>> >>

\* The shaIn example of the docstring.
Doctest3Data ==
    << <<"amount", PyInt(1500)>>, <<"currency", PyStr("EUR")>>,
       <<"operation", PyStr("RES")>>, <<"orderID", PyInt(1234)>>,
       <<"PSPID", PyStr("MyPSPID")>> >>

InitialMappings == {<<>>, Doctest1Data, Doctest2Data, Doctest3Data}

\* Keys in both allow-lists (in two casings), in one of them only, in neither.
CallerKeys == {"amount", "AMOUNT", "status", "operation", "d"}
CallerValues == {PyStr(""), PyNone, PyInt(0), PyFloat(0), PyStr("a")}

HashMethods == {"sha1", "sha256", "sha512", "md5"}
Secrets == {PyStr("c"), PyStr("Mysecretsig1875!?"), PyStr(""), PyNone}

\* The keys and values the caller uses once an instance exists.
FrameKeys == {"amount", "d"}
FrameValues == {PyInt(0), PyStr("a")}

(***************************************************************************)
(* The operations.                                                         *)
(***************************************************************************)
Init ==
    /\ caller = 1
    /\ \E d \in InitialMappings :
           heap = [r \in Refs |-> IF r = 1 THEN [live |-> TRUE, items |-> d] ELSE NoObj]
    /\ inst = NoInst
    /\ given = <<>>
    /\ call = NoArgs("none")
    /\ raised = "none"
    /\ sorted_data = <<>>
    /\ pre_sign_string = <<>>
    /\ signed = NoDigest

\* The caller builds its mapping before it constructs an instance: data[k] = v.
CallerSet(k, v) ==
    /\ ~inst.made
    /\ IF k \in KeysOf(heap[caller].items) THEN TRUE
       ELSE Len(heap[caller].items) < MaxLen
    /\ heap' = [heap EXCEPT ![caller].items = setitem(@, k, v)]
    /\ call' = NoArgs("setitem")
    /\ raised' = "none"
    /\ UNCHANGED <<caller, inst, given, sorted_data, pre_sign_string, signed>>

\* The caller changes its own mapping at any time: data[k] = v.
FrameSet(k, v) ==
    /\ IF k \in KeysOf(heap[caller].items) THEN TRUE
       ELSE Len(heap[caller].items) < MaxLen
    /\ heap' = [heap EXCEPT ![caller].items = setitem(@, k, v)]
    /\ call' = NoArgs("setitem")
    /\ raised' = "none"
    /\ UNCHANGED <<caller, inst, given, sorted_data, pre_sign_string, signed>>

\* The caller changes its own mapping at any time: del data[k].
FrameDel(k) ==
    /\ k \in KeysOf(heap[caller].items)
    /\ heap' = [heap EXCEPT ![caller].items = delitem(@, k)]
    /\ call' = NoArgs("delitem")
    /\ raised' = "none"
    /\ UNCHANGED <<caller, inst, given, sorted_data, pre_sign_string, signed>>

\* ogone = OgoneSignature(data, hash_method, secret, out=out)
Construct(hash_method, secret, out) ==
    /\ ~inst.made
    /\ LET r == __init__(heap, caller, hash_method, secret, "utf8", out)
       IN  /\ heap' = r.heap
           /\ inst' = r.self
           /\ raised' = r.raised
           /\ given' = IF r.raised = "none" THEN heap[caller].items ELSE given
    /\ call' = [op |-> "construct", hash_method |-> hash_method, secret |-> secret]
    /\ UNCHANGED <<caller, sorted_data, pre_sign_string, signed>>

\* ogone.signature(): sort, merge, sign.  secret.join raises AttributeError
\* when the secret is no string.
Signature ==
    /\ inst.made
    /\ call' = NoArgs("signature")
    /\ LET sd == _sort_data(inst, heap[inst.data].items)
       IN  /\ sorted_data' = sd
           /\ IF inst.secret.t # "str"
              THEN /\ raised' = "AttributeError"
                   /\ UNCHANGED <<pre_sign_string, signed>>
              ELSE /\ raised' = "none"
                   /\ pre_sign_string' = _merge_data(inst, sd)
                   /\ signed' = _sign_string(inst, _merge_data(inst, sd))
    /\ UNCHANGED <<heap, caller, inst, given>>

\* A caller that builds a mapping, constructs an instance and signs.
Next ==
    \/ \E k \in CallerKeys, v \in CallerValues : CallerSet(k, v)
    \/ \E h \in HashMethods, s \in Secrets, o \in BOOLEAN : Construct(h, s, o)
    \/ Signature

Spec == Init /\ [][Next]_vars

\* A caller that keeps changing its own mapping while an instance exists.
NextFrame ==
    \/ \E k \in FrameKeys, v \in FrameValues : FrameSet(k, v)
    \/ \E k \in FrameKeys : FrameDel(k)
    \/ \E h \in HashMethods, s \in Secrets, o \in BOOLEAN : Construct(h, s, o)
    \/ Signature

SpecFrame == Init /\ [][NextFrame]_vars

(***************************************************************************)
(* The properties.                                                         *)
(***************************************************************************)
Supported == {"sha1", "sha256", "sha512"}

\* The allow-list that applies to a direction.
Applicable(out) == IF out THEN SHA_OUT_FILTER_WORDS ELSE SHA_IN_FILTER_WORDS

\* The empty string or None.
IsEmpty(v) == v = PyStr("") \/ v = PyNone

\* The items of the instance's own mapping.
OwnItems == heap[inst.data].items

\* A mapping with the items i and i+1 in the other iteration order.
Swapped(d, i) ==
    [j \in 1..Len(d) |-> IF j = i THEN d[i + 1] ELSE IF j = i + 1 THEN d[i] ELSE d[j]]

\* C1: order-independence. An instance over the same entries in another
\* iteration order (any two neighbours exchanged) has the same canonical
\* sequence, the same pre-sign string and the same signature.
C1_OrderIndependence ==
    (call.op = "signature" /\ raised = "none") =>
        \A i \in 1..(Len(OwnItems) - 1) :
            LET sd == _sort_data(inst, Swapped(OwnItems, i))
            IN  /\ sd = sorted_data
                /\ _merge_data(inst, sd) = pre_sign_string
                /\ _sign_string(inst, _merge_data(inst, sd)) = signed

C3_EmptyValueExclusion ==
    call.op = "signature" =>
        /\ \A i \in 1..Len(sorted_data) : ~IsEmpty(sorted_data[i][2])
        /\ \A j \in 1..Len(OwnItems) :
               (/\ ~IsEmpty(OwnItems[j][2])
                /\ upper(OwnItems[j][1]) \in Applicable(inst.out)) =>
                   \E i \in 1..Len(sorted_data) :
                       sorted_data[i] = <<upper(OwnItems[j][1]), OwnItems[j][2]>>

\* A signature over a mapping with an allow-listed key of value '' or None and
\* an allow-listed key of value 0, which is kept.
C3_Witness ==
    /\ call.op = "signature"
    /\ \E j \in 1..Len(OwnItems) :
           /\ IsEmpty(OwnItems[j][2])
           /\ upper(OwnItems[j][1]) \in Applicable(inst.out)
    /\ \E i \in 1..Len(sorted_data) : sorted_data[i][2] = PyInt(0)

RECURSIVE EachThenSecret(_, _)
\* KEY=value followed by the secret, for every pair in order.
EachThenSecret(data, secret) ==
    IF data = <<>> THEN <<>>
    ELSE Chars[data[1][1]] \o <<61>> \o Format(data[1][2]) \o secret
             \o EachThenSecret(Tail(data), secret)

\* C4: the pre-sign string. It is the pairs as KEY=value in the order of the
\* canonical sequence, every pair directly followed by the secret; with no pair
\* it is the secret alone. (All characters are ASCII, one byte each.) The shaIn
\* example of the docstring gives the string the docstring shows.
C4_PreimageFormat ==
    (call.op = "signature" /\ raised = "none") =>
        /\ pre_sign_string =
               IF sorted_data = <<>> THEN Chars[inst.secret.s]
               ELSE EachThenSecret(sorted_data, Chars[inst.secret.s])
        /\ (/\ OwnItems = Doctest3Data
            /\ inst.secret = PyStr("Mysecretsig1875!?")
            /\ ~inst.out) =>
               pre_sign_string = Chars["AMOUNT=1500Mysecretsig1875!?CURRENCY=EURMysecretsig1875!?OPERATION=RESMysecretsig1875!?ORDERID=1234Mysecretsig1875!?PSPID=MyPSPIDMysecretsig1875!?"]

\* A signature whose canonical sequence has two pairs or more.
C4_Witness ==
    /\ call.op = "signature"
    /\ raised = "none"
    /\ Len(sorted_data) >= 2

\* C5: an empty or missing secret is rejected. A construction with the secret
\* '' or None raises and makes no instance, so no instance has such a secret.
C5_EmptySecretRejected ==
    /\ (call.op = "construct" /\ IsEmpty(call.secret)) =>
           (raised = "AssertionError" /\ ~inst.made)
    /\ inst.made => ~IsEmpty(inst.secret)

\* C6: an unsupported hash algorithm is rejected. A construction with a
\* hash_method other than sha1, sha256, sha512 raises, makes no instance and
\* copies nothing; an instance always has the hash_method it was given, which
\* is a supported one.
C6_UnsupportedHashRejected ==
    /\ (call.op = "construct" /\ call.hash_method \notin Supported) =>
           /\ raised = "AssertionError"
           /\ ~inst.made
           /\ \A r \in Refs \ {caller} : ~heap[r].live
    /\ inst.made => inst.hash_method \in Supported
    /\ (call.op = "construct" /\ inst.made) => inst.hash_method = call.hash_method

\* A construction with an unsupported hash_method that was rejected.
C6_Witness ==
    /\ call.op = "construct"
    /\ call.hash_method \notin Supported
    /\ raised = "AssertionError"
    /\ Len(heap[caller].items) >= 1

\* Every entry that has a value, key uppercased, in iteration order.
AllWithValue(data) ==
    LET kept == SelectSeq(data, LAMBDA e : ~IsEmpty(e[2]))
    IN  [i \in 1..Len(kept) |-> <<upper(kept[i][1]), kept[i][2]>>]

\* C7: limiting the keys is not implemented. For an instance constructed
\* without out, signature() sorts every entry that has a value; dict(d='a',
\* a='b') with secret 'c' gives [('A','b'), ('D','a')] and 'A=bcD=ac', and the
\* shaOUT example keeps its ten parameters in the string the docstring shows.
C7_NoKeyLimiting ==
    (call.op = "signature" /\ raised = "none" /\ ~inst.out) =>
        /\ sorted_data = sort(AllWithValue(OwnItems))
        /\ (OwnItems = Doctest1Data /\ inst.secret = PyStr("c")) =>
               /\ sorted_data = << <<"A", PyStr("b")>>, <<"D", PyStr("a")>> >>
               /\ pre_sign_string = Chars["A=bcD=ac"]
        /\ (OwnItems = Doctest2Data /\ inst.secret = PyStr("Mysecretsig1875!?")) =>
               pre_sign_string = Chars["ACCEPTANCE=1234Mysecretsig1875!?AMOUNT=15Mysecretsig1875!?BRAND=VISAMysecretsig1875!?CARDNO=xxxxxxxxxxxx1111Mysecretsig1875!?CURRENCY=EURMysecretsig1875!?NCERROR=0Mysecretsig1875!?ORDERID=12Mysecretsig1875!?PAYID=32100123Mysecretsig1875!?PM=CreditCardMysecretsig1875!?STATUS=9Mysecretsig1875!?"]

\* C8: keys are unique after case-normalization. The canonical sequence holds
\* every uppercased key at most once.
C8_KeysUniqueAfterUpper ==
    call.op = "signature" =>
        \A i, j \in 1..Len(sorted_data) :
            sorted_data[i][1] = sorted_data[j][1] => i = j

RECURSIVE SortByKeyAlone(_)
\* A stable sort that compares the keys and nothing else.
SortByKeyAlone(l) ==
    IF l = <<>> THEN <<>>
    ELSE LET s == SortByKeyAlone(SubSeq(l, 1, Len(l) - 1))
             x == l[Len(l)]
             i == Cardinality({j \in 1..Len(s) : ~StrLT(x[1], s[j][1])})
         IN  SubSeq(s, 1, i) \o <<x>> \o SubSeq(s, i + 1, Len(s))

\* C10: the canonical sequence is in ascending order of the uppercased key, and
\* the key alone determines the order: the values take no part in it.
C10_SortedByKeyAlone ==
    call.op = "signature" =>
        /\ \A i \in 1..(Len(sorted_data) - 1) :
               ~StrLT(sorted_data[i + 1][1], sorted_data[i][1])
        /\ sorted_data = SortByKeyAlone(Comprehension(inst, OwnItems))

\* C9: side-effect freedom. Construction and signature() leave the caller's
\* mapping as it is; signature() leaves the instance and its mapping as they
\* are; the instance's mapping stays what the caller's mapping held at
\* construction, and signature() returns the signature of that, whatever the
\* caller did to its own mapping since.
C9_InputsUntouched ==
    /\ [][call'.op \in {"construct", "signature"} =>
              heap'[caller].items = heap[caller].items]_vars
    /\ [][call'.op = "signature" => (inst' = inst /\ heap' = heap)]_vars
    /\ [](inst.made => OwnItems = given)
    /\ []((call.op = "signature" /\ raised = "none") =>
              signed = _sign_string(inst, _merge_data(inst, _sort_data(inst, given))))

\* A signature returned after the caller changed its own mapping.
C9_Witness ==
    /\ call.op = "signature"
    /\ raised = "none"
    /\ heap[caller].items # given

====
